---- MODULE Spec2Model ----
(***************************************************************************)
(* A model of src/index.js (joi-route-to-swagger): convert() folds a list  *)
(* of route modules into one OpenAPI document.                             *)
(*                                                                         *)
(* Conventions.                                                            *)
(*  - A JavaScript string that the code inspects character by character   *)
(*    (base paths, route paths, tag names, field names) is a sequence of   *)
(*    one-character strings: "/users" is <<"/","u","s","e","r","s">>.      *)
(*    The empty sequence is the empty string; an absent (undefined) name   *)
(*    or description is modelled by the empty sequence as well, because    *)
(*    the code only ever tests these values for truthiness.                *)
(*  - A description is a sequence of text fragments, so that the template  *)
(*    literal of _messageDescriptionWithExample is a concatenation.        *)
(*  - A validator is represented by the ConvertedSchema that joi2json      *)
(*    (an external library) returns for it, with schemas already deleted.  *)
(*  - Objects whose identity matters (the path entries of docEntity.paths) *)
(*    live in a heap, pathItems, and paths maps a template to a reference. *)
(***************************************************************************)
EXTENDS Integers, Sequences, FiniteSets, TLC

VARIABLES
  allModuleRoutes, \* the modules (and their routes) consumed so far, in order
  tags,            \* docEntity.tags
  paths,           \* docEntity.paths: template -> reference into pathItems
  pathItems,       \* heap of path entries: reference -> (method -> route object)
  sharedSchemas,   \* docEntity.components.schemas
  pathParams,      \* buildSwaggerRequest's local pathParams
  routePath,       \* buildSwaggerRequest's local routePath (a reference, 0 = none)
  cbf,             \* the running containsBinaryField invocation
  pc,              \* position of the conversion
  err              \* the exception that aborted convert, or "none"

vars == <<allModuleRoutes, tags, paths, pathItems, sharedSchemas, pathParams,
          routePath, cbf, pc, err>>

(***************************************************************************)
(* Bounds of the model.                                                    *)
(***************************************************************************)
MaxModules == 2
MaxRoutes == 2
MaxPathLen == 3
MaxExamples == 2
MaxResponses == 2

Undefined == "undefined"

Last(s) == s[Len(s)]

Range(s) == {s[i] : i \in 1..Len(s)}

\* JavaScript truthiness of a string-valued or absent scalar.
Truthy(v) == v \notin {Undefined, ""}

\* All sequences over S of length at most n.
SeqsUpTo(S, n) == UNION {[1..k -> S] : k \in 0..n}

(***************************************************************************)
(* String helpers, computed as String.prototype computes them.             *)
(***************************************************************************)
\* s.substring(1)
Substring1(s) == IF Len(s) = 0 THEN <<>> ELSE SubSeq(s, 2, Len(s))

\* s.replace(/\//g, "-")
ReplaceSlashes(s) == [i \in 1..Len(s) |-> IF s[i] = "/" THEN "-" ELSE s[i]]

\* s.indexOf(c), 0-based, -1 when absent
IndexOf(s, c) ==
  IF \E i \in 1..Len(s) : s[i] = c
  THEN (CHOOSE i \in 1..Len(s) : s[i] = c /\ \A j \in 1..(i - 1) : s[j] # c) - 1
  ELSE -1

RECURSIVE Split(_)
\* s.split("/")
Split(s) ==
  LET i == IndexOf(s, "/")
  IN IF i = -1 THEN <<s>>
     ELSE <<SubSeq(s, 1, i)>> \o Split(SubSeq(s, i + 2, Len(s)))

RECURSIVE Join(_)
\* components.join("/")
Join(components) ==
  IF Len(components) = 0 THEN <<>>
  ELSE IF Len(components) = 1 THEN components[1]
  ELSE components[1] \o <<"/">> \o Join(Tail(components))

RECURSIVE Flatten(_)
Flatten(ss) == IF Len(ss) = 0 THEN <<>> ELSE Head(ss) \o Flatten(Tail(ss))

(***************************************************************************)
(* buildSwaggerRequest, lines 148-160: the path template and the names.    *)
(***************************************************************************)
\* a ":" anywhere in the component
IsPathParamAnywhere(component) == IndexOf(component, ":") >= 0

\* component.indexOf(":") === 0
IsPathParam(component) == IndexOf(component, ":") = 0

\* the callback of .map(): the rewritten component
MapComponent(component) ==
  IF IsPathParam(component)
  THEN <<"{">> \o Substring1(component) \o <<"}">>
  ELSE component

PathComponents(basePath, path) ==
  LET parts == Split(basePath \o path)
  IN [i \in 1..Len(parts) |-> MapComponent(parts[i])]

\* pathParams after the map: one push per ":" component, in map order
CollectPathParams(basePath, path) ==
  LET parts == Split(basePath \o path)
  IN Flatten([i \in 1..Len(parts) |->
                IF IsPathParam(parts[i]) THEN <<Substring1(parts[i])>> ELSE <<>>])

PathString(basePath, path) == Join(PathComponents(basePath, path))

(***************************************************************************)
(* Converted schemas.                                                      *)
(*   field schema : [type, format, itemsFormat, hasDescription,            *)
(*                   description, example, hasExamples, examples]          *)
(*   property     : [name, schema]   (properties keep insertion order)     *)
(*   json schema  : [defined, properties, required, ref]                   *)
(* defined = FALSE is the absent value (no validator, no store entry).     *)
(* ref is the $ref string as a sequence of fragments, <<>> when absent.    *)
(***************************************************************************)
RefPrefix == "#/components/schemas/"

NoSchema == [defined |-> FALSE, properties |-> <<>>, required |-> {}, ref |-> <<>>]

HasProperty(jsonSchema, fieldName) ==
  \E i \in 1..Len(jsonSchema.properties) : jsonSchema.properties[i].name = fieldName

\* jsonSchema.properties[fieldName]
PropertyOf(jsonSchema, fieldName) ==
  LET i == CHOOSE j \in 1..Len(jsonSchema.properties) :
             jsonSchema.properties[j].name = fieldName
  IN jsonSchema.properties[i].schema

\* _.omit(schema, ["description", "example"])
OmitDescriptionExample(schema) ==
  [type |-> schema.type, format |-> schema.format, itemsFormat |-> schema.itemsFormat,
   hasExamples |-> schema.hasExamples, examples |-> schema.examples]

StringSchema ==
  [type |-> "string", format |-> Undefined, itemsFormat |-> Undefined,
   hasExamples |-> FALSE, examples |-> <<>>]

(***************************************************************************)
(* Parameter objects:                                                      *)
(*   [name, in, required, hasDescription, description, example,            *)
(*    hasExamples, examples, schema]                                       *)
(* required = FALSE and example = Undefined are absent keys.               *)
(***************************************************************************)
\* _messageDescriptionWithExample, lines 4-11
messageDescriptionWithExample(schema) ==
  LET described ==
        IF ~schema.hasDescription \/ schema.description = <<>>
        THEN [schema EXCEPT !.hasDescription = TRUE, !.description = <<>>]
        ELSE schema
  IN IF Truthy(described.example)
     THEN [described EXCEPT
             !.description = @ \o <<" (Example: ", described.example, ")">>]
     ELSE described

\* lines 16-25: the picked object, with examples[0] promoted to example
PickedParamObj(jsonSchema, fieldName, schema) ==
  LET picked == [name |-> fieldName, in |-> Undefined,
                 required |-> fieldName \in jsonSchema.required,
                 hasDescription |-> schema.hasDescription,
                 description |-> schema.description,
                 example |-> Undefined,
                 hasExamples |-> schema.hasExamples, examples |-> schema.examples,
                 schema |-> StringSchema]
  IN IF picked.hasExamples /\ Len(picked.examples) > 0
     THEN [picked EXCEPT !.example = picked.examples[1],
                         !.hasExamples = FALSE, !.examples = <<>>]
     ELSE picked

\* _convertJsonSchemaToParamObj, lines 13-31.  threw: the TypeError of line 14
\* (no properties) or of line 27 (schema.example of an undefined schema).
convertJsonSchemaToParamObj(jsonSchema, fieldName) ==
  IF ~HasProperty(jsonSchema, fieldName)
  THEN [threw |-> TRUE, obj |-> Undefined]
  ELSE LET schema == PropertyOf(jsonSchema, fieldName)
           paramObj == [PickedParamObj(jsonSchema, fieldName, schema) EXCEPT
                          !.schema = OmitDescriptionExample(schema),
                          !.example = schema.example]
       IN [threw |-> FALSE, obj |-> messageDescriptionWithExample(paramObj)]

\* the position-to-location mapping of addRouteParameters, lines 49-55
LocationOf(position) ==
  IF position = "queryStringParameters" THEN "query"
  ELSE IF position = "pathParameters" THEN "path"
  ELSE position

\* addRouteParameters, lines 33-58: the parameters pushed for one position
RouteParameters(validator, position) ==
  IF ~validator.defined THEN <<>>
  ELSE [i \in 1..Len(validator.properties) |->
          [convertJsonSchemaToParamObj(validator, validator.properties[i].name).obj
             EXCEPT !.in = LocationOf(position)]]

\* the untyped parameter of addRequestPathParams, lines 105-111, 117-120
UntypedPathParam(param) ==
  [name |-> param, in |-> "path", required |-> TRUE,
   hasDescription |-> TRUE, description |-> <<>>, example |-> Undefined,
   hasExamples |-> FALSE, examples |-> <<>>, schema |-> StringSchema]

\* one iteration of the loop of addRequestPathParams, lines 104-122
PathParamObj(pathParamSchema, param) ==
  IF ~pathParamSchema.defined
  THEN [threw |-> FALSE, obj |-> UntypedPathParam(param)]
  ELSE LET converted == convertJsonSchemaToParamObj(pathParamSchema, param)
       IN IF converted.threw THEN converted
          ELSE [threw |-> FALSE,
                obj |-> [converted.obj EXCEPT !.in = "path", !.hasDescription = TRUE]]

RECURSIVE RequestPathParams(_, _)
\* addRequestPathParams, lines 97-123: the parameters pushed before the loop
\* ends or throws
RequestPathParams(pathParamSchema, names) ==
  IF Len(names) = 0 THEN [threw |-> FALSE, params |-> <<>>]
  ELSE LET first == PathParamObj(pathParamSchema, Head(names))
       IN IF first.threw THEN [threw |-> TRUE, params |-> <<>>]
          ELSE LET rest == RequestPathParams(pathParamSchema, Tail(names))
               IN [threw |-> rest.threw, params |-> <<first.obj>> \o rest.params]

(***************************************************************************)
(* containsBinaryField, lines 60-74.                                       *)
(* A store maps names to json schemas; a name it does not hold reads as    *)
(* undefined (NoSchema).  An invocation is the record                      *)
(*   [schema, hasStore, result]                                            *)
(* hasStore = FALSE: the parameter sharedSchemas is undefined in this      *)
(* invocation.  result is "running" until the outermost call has returned  *)
(* ("true", "false") or thrown ("TypeError").                              *)
(***************************************************************************)
\* sharedSchemas[name]
StoreLookup(store, name) == IF name \in DOMAIN store THEN store[name] ELSE NoSchema

\* schema.$ref.replace("#/components/schemas/", ""): the first occurrence goes
RefName(ref) ==
  IF \E i \in 1..Len(ref) : ref[i] = RefPrefix
  THEN LET i == CHOOSE j \in 1..Len(ref) :
                  ref[j] = RefPrefix /\ \A k \in 1..(j - 1) : ref[k] # RefPrefix
       IN SubSeq(ref, 1, i - 1) \o SubSeq(ref, i + 1, Len(ref))
  ELSE ref

\* the predicate of _.some, lines 61-66 (joi2json gives every array field an
\* items object; itemsFormat = Undefined is an items object without format)
IsBinaryField(fieldDefn) ==
  IF fieldDefn.type = "array"
  THEN fieldDefn.itemsFormat = "binary"
  ELSE fieldDefn.format = "binary"

AnyBinaryField(schema) ==
  \E i \in 1..Len(schema.properties) : IsBinaryField(schema.properties[i].schema)

\* a nested call that is handed the caller's store
NestedHasStoreThreaded(hasStore) == hasStore

\* line 70 as written: containsBinaryField(sharedSchemas[sharedSchemaName]),
\* so sharedSchemas is undefined inside the nested call
NestedHasStore(hasStore) == FALSE

\* One invocation of containsBinaryField on call.schema: it returns, throws,
\* or makes the nested call of line 70 (whose value it returns unchanged).
ContainsBinaryFieldCall(call, store) ==
  IF ~call.schema.defined
  THEN [call EXCEPT !.result = "TypeError"]
  ELSE IF AnyBinaryField(call.schema)
  THEN [call EXCEPT !.result = "true"]
  ELSE IF call.schema.ref = <<>>
  THEN [call EXCEPT !.result = "false"]
  ELSE IF ~call.hasStore
  THEN [call EXCEPT !.result = "TypeError"]
  ELSE [schema |-> StoreLookup(store, RefName(call.schema.ref)[1]),
        hasStore |-> NestedHasStore(call.hasStore),
        result |-> "running"]

NoCall == [schema |-> NoSchema, hasStore |-> FALSE, result |-> "none"]

\* lines 81-85
ContentTypeOf(result) ==
  IF result = "true" THEN "multipart/form-data" ELSE "application/json"

(***************************************************************************)
(* addResponseExample, lines 125-144.                                      *)
(*   example  : [code, schema, mediaType, description]                     *)
(*   response : [description, mediaType, schema]                           *)
(* schema is the name of the converted schema, Undefined when the example  *)
(* declares none.  responses is a function from status codes.              *)
(***************************************************************************)
\* lines 135-142
ResponseObject(example) ==
  [description |-> IF Truthy(example.description)
                   THEN example.description ELSE "Normal Response",
   mediaType |-> IF Truthy(example.mediaType)
                 THEN example.mediaType ELSE "application/json",
   schema |-> example.schema]

\* an iteration that keeps the entry a code already has
PutResponseFirstWins(responses, example) ==
  IF ~Truthy(example.schema) \/ example.code \in DOMAIN responses THEN responses
  ELSE (example.code :> ResponseObject(example)) @@ responses

\* one iteration of the loop: skip without a schema, else overwrite
PutResponse(responses, example) ==
  IF ~Truthy(example.schema) THEN responses
  ELSE (example.code :> ResponseObject(example)) @@ responses

RECURSIVE ResponseExamples(_, _)
ResponseExamples(responses, examples) ==
  IF Len(examples) = 0 THEN responses
  ELSE ResponseExamples(PutResponse(responses, Head(examples)), Tail(examples))

(***************************************************************************)
(* The templates of convert, lines 218-270 (no skeleton overrides).        *)
(***************************************************************************)
ErrorSchema ==
  [defined |-> TRUE,
   properties |->
     << [name |-> <<"c", "o", "d", "e">>,
         schema |-> [type |-> "string", format |-> Undefined, itemsFormat |-> Undefined,
                     hasDescription |-> FALSE, description |-> <<>>,
                     example |-> Undefined, hasExamples |-> FALSE, examples |-> <<>>]],
        [name |-> <<"e", "r", "r">>,
         schema |-> [type |-> "string", format |-> Undefined, itemsFormat |-> Undefined,
                     hasDescription |-> FALSE, description |-> <<>>,
                     example |-> Undefined, hasExamples |-> FALSE, examples |-> <<>>]] >>,
   required |-> {<<"c", "o", "d", "e">>, <<"e", "r", "r">>},
   ref |-> <<>>]

\* DOC_ROOT_TEMPLATE.components.schemas
DocSchemas == [n \in {"Error"} |-> ErrorSchema]

NoRequestBody == [contentType |-> Undefined, schema |-> NoSchema]

\* ROUTE_DEF_TEMPLATE
routeEntity ==
  [tags |-> <<>>, summary |-> "", description |-> "", security |-> Undefined,
   deprecated |-> FALSE, parameters |-> <<>>,
   requestBody |-> NoRequestBody,
   responses |-> ("500" :> [description |-> "When Server takes a nap.",
                            mediaType |-> "application/json",
                            schema |-> "#/components/schemas/Error"])]

(***************************************************************************)
(* buildModuleRoutes, lines 193-204: the tag of a module.                  *)
(*   module : [basePath, name, description, routes]                        *)
(***************************************************************************)
\* line 194
ModuleId(basePath) == ReplaceSlashes(Substring1(basePath))

\* line 195
TagOf(moduleRoutes) ==
  IF moduleRoutes.name # <<>> THEN moduleRoutes.name ELSE ModuleId(moduleRoutes.basePath)

\* lines 197-200
TagObject(moduleRoutes) ==
  [name |-> TagOf(moduleRoutes),
   description |-> IF moduleRoutes.description # <<>>
                   THEN moduleRoutes.description
                   ELSE ModuleId(moduleRoutes.basePath)]

\* a registration that replaces the Tag Object of the name
RegisterTagLastWins(tagList, tagObject) ==
  IF \E i \in 1..Len(tagList) : tagList[i].name = tagObject.name
  THEN [i \in 1..Len(tagList) |->
          IF tagList[i].name = tagObject.name THEN tagObject ELSE tagList[i]]
  ELSE Append(tagList, tagObject)

\* lines 201-204
RegisterTag(tagList, tagObject) ==
  IF \E i \in 1..Len(tagList) : tagList[i].name = tagObject.name
  THEN tagList
  ELSE Append(tagList, tagObject)

(***************************************************************************)
(* The state of one conversion.  convert's first loop, lines 272-309,      *)
(* only pushes onto the parameters field of the input route definitions,   *)
(* which nothing reads afterwards: it leaves the document as it is.        *)
(***************************************************************************)
Init ==
  /\ allModuleRoutes = <<>>
  /\ tags = <<>>
  /\ paths = <<>>
  /\ pathItems = <<>>
  /\ sharedSchemas = DocSchemas
  /\ pathParams = <<>>
  /\ routePath = 0
  /\ cbf = NoCall
  /\ pc = "idle"
  /\ err = "none"

\* the module and the route being processed
CurModule == Last(allModuleRoutes)

RouteDef == Last(CurModule.routes)

\* the route object being built, and the same object with a field replaced
swaggerReq == pathItems[routePath][RouteDef.method]

WithSwaggerReq(req) ==
  [pathItems EXCEPT ![routePath] = (RouteDef.method :> req) @@ @]

RoutesDone ==
  LET RECURSIVE Count(_)
      Count(i) == IF i = 0 THEN 0 ELSE Len(allModuleRoutes[i].routes) + Count(i - 1)
  IN Count(Len(allModuleRoutes))

\* buildModuleRoutes up to the loop over the routes, for the next module of
\* the input
buildModuleRoutes(moduleRoutes) ==
  /\ pc = "idle"
  /\ tags' = RegisterTag(tags, TagObject(moduleRoutes))
  /\ allModuleRoutes' = Append(allModuleRoutes, moduleRoutes)
  /\ UNCHANGED <<paths, pathItems, sharedSchemas, pathParams, routePath, cbf, pc, err>>

\* a fresh path entry for every route
RoutePathRefRecreated(pathMap, items, pathString) == Len(items) + 1

\* line 161: routePaths[pathString] || {}
RoutePathRef(pathMap, items, pathString) ==
  IF pathString \in DOMAIN pathMap THEN pathMap[pathString] ELSE Len(items) + 1

\* lines 164-171
NewSwaggerReq(tag, routeDef) ==
  [routeEntity EXCEPT
     !.tags = Append(@, tag),
     !.summary = routeDef.summary,
     !.description = routeDef.description,
     !.security = routeDef.security,
     !.deprecated = IF routeDef.deprecated THEN TRUE ELSE @]

\* buildSwaggerRequest, lines 146-176, for the next route of the current
\* module
buildSwaggerRequest(routeDef) ==
  /\ pc = "idle"
  /\ allModuleRoutes # <<>>
  /\ LET basePath == CurModule.basePath
         pathString == PathString(basePath, routeDef.path)
         ref == RoutePathRef(paths, pathItems, pathString)
         created == NewSwaggerReq(TagOf(CurModule), routeDef)
     IN /\ pathParams' = CollectPathParams(basePath, routeDef.path)
        /\ routePath' = ref
        /\ paths' = (pathString :> ref) @@ paths
        /\ pathItems' = IF ref <= Len(pathItems)
                        THEN [pathItems EXCEPT
                                ![ref] = (routeDef.method :> created) @@ @]
                        ELSE Append(pathItems, (routeDef.method :> created))
  /\ allModuleRoutes' =
       [allModuleRoutes EXCEPT ![Len(allModuleRoutes)].routes = Append(@, routeDef)]
  /\ pc' = "addRequestPathParams"
  /\ UNCHANGED <<tags, sharedSchemas, cbf, err>>

\* the header pass first
PositionsHeaderFirst ==
  <<"header", "query", "queryStringParameters", "pathParameters">>

\* the four calls of lines 179-187, in their order
Positions == <<"query", "queryStringParameters", "header", "pathParameters">>

PositionIndex(position) == CHOOSE i \in 1..Len(Positions) : Positions[i] = position

\* addRequestPathParams, called at line 178
addRequestPathParams ==
  /\ pc = "addRequestPathParams"
  /\ LET res == RequestPathParams(RouteDef.validators.path, pathParams)
     IN /\ pathItems' =
             WithSwaggerReq([swaggerReq EXCEPT !.parameters = @ \o res.params])
        /\ err' = IF res.threw THEN "TypeError" ELSE err
        /\ pc' = IF res.threw THEN "aborted" ELSE Positions[1]
  /\ UNCHANGED <<allModuleRoutes, tags, paths, sharedSchemas, pathParams, routePath, cbf>>

\* addRouteParameters for the position the conversion stands at
addRouteParameters ==
  /\ pc \in Range(Positions)
  /\ pathItems' =
       WithSwaggerReq([swaggerReq EXCEPT
         !.parameters = @ \o RouteParameters(RouteDef.validators[pc], pc)])
  /\ pc' = IF PositionIndex(pc) < Len(Positions)
           THEN Positions[PositionIndex(pc) + 1]
           ELSE "addRequestBodyParams"
  /\ UNCHANGED <<allModuleRoutes, tags, paths, sharedSchemas, pathParams, routePath,
                 cbf, err>>

\* addRequestBodyParams, lines 76-83: joi2json converts the body validator,
\* adding the shared definitions it meets to the store, and the outermost
\* containsBinaryField call is made with the store
addRequestBodyParams ==
  /\ pc = "addRequestBodyParams"
  /\ IF RouteDef.validators.body.defined
     THEN /\ sharedSchemas' = RouteDef.shared @@ sharedSchemas
          /\ cbf' = [schema |-> RouteDef.validators.body, hasStore |-> TRUE,
                     result |-> "running"]
          /\ pc' = "containsBinaryField"
     ELSE /\ pc' = "addResponseExample"
          /\ UNCHANGED <<sharedSchemas, cbf>>
  /\ UNCHANGED <<allModuleRoutes, tags, paths, pathItems, pathParams, routePath, err>>

\* one invocation of containsBinaryField
containsBinaryField ==
  /\ pc = "containsBinaryField"
  /\ LET next == ContainsBinaryFieldCall(cbf, sharedSchemas)
     IN /\ cbf' = next
        /\ err' = IF next.result = "TypeError" THEN "TypeError" ELSE err
        /\ pc' = IF next.result = "TypeError" THEN "aborted"
                 ELSE IF next.result = "running" THEN pc
                 ELSE "requestBody"
  /\ UNCHANGED <<allModuleRoutes, tags, paths, pathItems, sharedSchemas, pathParams,
                 routePath>>

\* addRequestBodyParams, lines 83-93, once containsBinaryField has returned
SetRequestBody ==
  /\ pc = "requestBody"
  /\ pathItems' =
       WithSwaggerReq([swaggerReq EXCEPT
         !.requestBody = [contentType |-> ContentTypeOf(cbf.result),
                          schema |-> RouteDef.validators.body]])
  /\ cbf' = NoCall
  /\ pc' = "addResponseExample"
  /\ UNCHANGED <<allModuleRoutes, tags, paths, sharedSchemas, pathParams, routePath, err>>

\* addResponseExample, called at line 190; the route is then finished
addResponseExample ==
  /\ pc = "addResponseExample"
  /\ pathItems' =
       WithSwaggerReq([swaggerReq EXCEPT
         !.responses = ResponseExamples(@, RouteDef.responseExamples)])
  /\ pc' = "idle"
  /\ UNCHANGED <<allModuleRoutes, tags, paths, sharedSchemas, pathParams, routePath,
                 cbf, err>>

(***************************************************************************)
(* Inputs.                                                                 *)
(***************************************************************************)
Chars == {"/", ":", "a", "b"}

Strings == SeqsUpTo(Chars, MaxPathLen)

Field(name, type, format, itemsFormat) ==
  [name |-> name,
   schema |-> [type |-> type, format |-> format, itemsFormat |-> itemsFormat,
               hasDescription |-> FALSE, description |-> <<>>,
               example |-> Undefined, hasExamples |-> FALSE, examples |-> <<>>]]

StringField(name) == Field(name, "string", Undefined, Undefined)

\* an object schema whose properties are string fields with the given names
ObjectOf(names) ==
  [defined |-> TRUE, properties |-> [i \in 1..Len(names) |-> StringField(names[i])],
   required |-> {}, ref |-> <<>>]

NoValidators ==
  [path |-> NoSchema, query |-> NoSchema, queryStringParameters |-> NoSchema,
   header |-> NoSchema, pathParameters |-> NoSchema, body |-> NoSchema]

Route(method, path, validators, shared, responseExamples) ==
  [method |-> method, path |-> path, summary |-> "s", description |-> "d",
   security |-> Undefined, deprecated |-> FALSE, validators |-> validators,
   shared |-> shared, responseExamples |-> responseExamples]

Module(basePath, name, description) ==
  [basePath |-> basePath, name |-> name, description |-> description, routes |-> <<>>]

Example(code, schema, mediaType, description) ==
  [code |-> code, schema |-> schema, mediaType |-> mediaType,
   description |-> description]

RefTo(name) == <<RefPrefix, name>>

\* --- the document-level inputs: modules whose tags collide, routes whose
\* templates collide
Modules ==
  {Module(<<"/", "a">>, <<>>, <<>>),
   Module(<<"/", "a">>, <<"a", "-", "b">>, <<>>),
   Module(<<"/", "a", "/", "b">>, <<>>, <<>>),
   Module(<<"/", "a", "/", "b">>, <<>>, <<"d">>)}

BinaryBody ==
  [defined |-> TRUE, properties |-> <<Field(<<"f">>, "string", "binary", Undefined)>>,
   required |-> {}, ref |-> <<>>]

FullValidators ==
  [path |-> ObjectOf(<<<<"i">>>>), query |-> ObjectOf(<<<<"q">>>>),
   queryStringParameters |-> NoSchema, header |-> ObjectOf(<<<<"h">>>>),
   pathParameters |-> ObjectOf(<<<<"p">>>>), body |-> BinaryBody]

RouteDefs ==
  {Route("get", <<>>, NoValidators, <<>>, <<>>),
   Route("post", <<"/", "b">>, NoValidators, <<>>, <<>>),
   Route("get", <<"/", ":", "i">>, FullValidators, <<>>,
         <<Example("200", "S1", Undefined, Undefined)>>),
   Route("post", <<"/", ":", "i">>, FullValidators, <<>>, <<>>),
   Route("put", <<"/", ":", "i">>,
         [NoValidators EXCEPT !.path = ObjectOf(<<<<"k">>>>)], <<>>, <<>>)}

\* --- rich strings for the path template
PathModules == {Module(basePath, <<>>, <<>>) : basePath \in Strings}

PathRouteDefs == {Route("get", path, NoValidators, <<>>, <<>>) : path \in Strings}

\* --- rich validators for one route
RouteModules == {Module(<<"/", "a">>, <<>>, <<>>)}

ParamRouteDefs ==
  {Route("get", path,
         [path |-> pv, query |-> q, queryStringParameters |-> qs, header |-> h,
          pathParameters |-> pp, body |-> NoSchema], <<>>, <<>>) :
     path \in {<<"/", "x">>, <<"/", ":", "i">>, <<"/", ":", "i", "/", ":", "k">>},
     pv \in {NoSchema, ObjectOf(<<<<"i">>>>), ObjectOf(<<<<"k">>, <<"i">>>>),
             ObjectOf(<<<<"k">>>>), ObjectOf(<<>>)},
     q \in {NoSchema, ObjectOf(<<<<"q">>>>)},
     qs \in {NoSchema, ObjectOf(<<<<"s">>, <<"q">>>>)},
     h \in {NoSchema, ObjectOf(<<<<"h">>>>)},
     pp \in {NoSchema, ObjectOf(<<<<"p">>>>)}}

RichFieldSchemas ==
  {[type |-> "string", format |-> Undefined, itemsFormat |-> Undefined,
    hasDescription |-> d[1], description |-> d[2], example |-> example,
    hasExamples |-> exs[1], examples |-> exs[2]] :
     d \in {<<FALSE, <<>>>>, <<TRUE, <<>>>>, <<TRUE, <<"about">>>>},
     example \in {Undefined, "", "x"},
     exs \in {<<FALSE, <<>>>>} \cup
             {<<TRUE, l>> : l \in SeqsUpTo({"a@b.com", "e2"}, MaxExamples)}}

OneField(name, schema, required) ==
  [defined |-> TRUE, properties |-> <<[name |-> name, schema |-> schema]>>,
   required |-> required, ref |-> <<>>]

FieldRouteDefs ==
  {Route("get", <<"/", ":", "i">>,
         [NoValidators EXCEPT ![position] =
            OneField(IF position = "path" THEN <<"i">> ELSE <<"q">>, schema,
                     IF required THEN {<<"i">>, <<"q">>} ELSE {})],
         <<>>, <<>>) :
     position \in {"path", "query"}, schema \in RichFieldSchemas,
     required \in BOOLEAN}

BodyProperties ==
  {<<>>,
   <<StringField(<<"f">>)>>,
   <<StringField(<<"g">>), Field(<<"f">>, "string", "binary", Undefined)>>,
   <<Field(<<"f">>, "array", Undefined, "binary")>>,
   <<Field(<<"f">>, "array", Undefined, "string")>>}

BodySchemas ==
  {[defined |-> TRUE, properties |-> properties, required |-> {}, ref |-> ref] :
     properties \in BodyProperties,
     ref \in {<<>>, RefTo("A"), RefTo("B"), RefTo("Z")}}

StoreEntries ==
  {NoSchema}
  \cup {[defined |-> TRUE, properties |-> properties, required |-> {}, ref |-> <<>>] :
          properties \in BodyProperties \ {<<>>}}
  \cup {[defined |-> TRUE, properties |-> <<>>, required |-> {}, ref |-> RefTo(name)] :
          name \in {"A", "B", "Z"}}

\* the definitions joi2json adds to the store: names A and B, each optional
StoreOf(a, b) ==
  LET entry == [n \in {"A", "B"} |-> IF n = "A" THEN a ELSE b]
  IN [n \in {x \in {"A", "B"} : entry[x].defined} |-> entry[n]]

Stores == {StoreOf(a, b) : a \in StoreEntries, b \in StoreEntries}

BodyRouteDefs ==
  {Route("post", <<>>, [NoValidators EXCEPT !.body = body], shared, <<>>) :
     body \in BodySchemas, shared \in Stores}

Examples ==
  {Example(code, schema, Undefined, Undefined) :
     code \in {"200", "500"}, schema \in {Undefined, "S1", "S2"}}
  \cup {Example("200", "S1", "text/plain", "ok"),
        Example("500", Undefined, "text/plain", "ok")}

ResponseRouteDefs ==
  {Route("get", <<>>, NoValidators, <<>>, examples) :
     examples \in SeqsUpTo(Examples, MaxResponses)}

OneRouteDefs == ParamRouteDefs \cup FieldRouteDefs \cup BodyRouteDefs \cup ResponseRouteDefs

(***************************************************************************)
(* Specifications.                                                         *)
(***************************************************************************)
\* what a route goes through after buildSwaggerRequest has inserted it
RouteSteps ==
  \/ addRequestPathParams
  \/ addRouteParameters
  \/ addRequestBodyParams
  \/ containsBinaryField
  \/ SetRequestBody
  \/ addResponseExample

\* convert over up to MaxModules modules holding up to MaxRoutes routes
Next ==
  \/ /\ Len(allModuleRoutes) < MaxModules
     /\ \E moduleRoutes \in Modules : buildModuleRoutes(moduleRoutes)
  \/ /\ RoutesDone < MaxRoutes
     /\ \E routeDef \in RouteDefs : buildSwaggerRequest(routeDef)
  \/ RouteSteps

Spec == Init /\ [][Next]_vars

\* the first route of the first module, over every base path and path
NextPath ==
  \/ /\ allModuleRoutes = <<>>
     /\ \E moduleRoutes \in PathModules : buildModuleRoutes(moduleRoutes)
  \/ /\ RoutesDone = 0
     /\ \E routeDef \in PathRouteDefs : buildSwaggerRequest(routeDef)

SpecPath == Init /\ [][NextPath]_vars

\* the first route of the first module, over rich validators
NextRoute ==
  \/ /\ allModuleRoutes = <<>>
     /\ \E moduleRoutes \in RouteModules : buildModuleRoutes(moduleRoutes)
  \/ /\ RoutesDone = 0
     /\ \E routeDef \in OneRouteDefs : buildSwaggerRequest(routeDef)
  \/ RouteSteps

SpecRoute == Init /\ [][NextRoute]_vars

(***************************************************************************)
(* Properties.                                                             *)
(***************************************************************************)
\* the route of the log at module k, position i, and every such place
RoutePlaces ==
  UNION {{<<k, i>> : i \in 1..Len(allModuleRoutes[k].routes)} :
           k \in 1..Len(allModuleRoutes)}

\* a route has been inserted and is the one the conversion stands at
RouteStarted == allModuleRoutes # <<>> /\ CurModule.routes # <<>>

\* the tag name as the documentation words it: the explicit name, else the
\* base path without its leading "/" and with "-" for every other "/"
DerivedTagName(basePath) ==
  LET rest == IF Len(basePath) > 0 /\ basePath[1] = "/" THEN Tail(basePath) ELSE basePath
  IN [i \in 1..Len(rest) |-> IF rest[i] = "/" THEN "-" ELSE rest[i]]

ExpectedTagName(moduleRoutes) ==
  IF moduleRoutes.name = <<>> THEN DerivedTagName(moduleRoutes.basePath)
  ELSE moduleRoutes.name

ExpectedTagDescription(moduleRoutes) ==
  IF moduleRoutes.description = <<>> THEN DerivedTagName(moduleRoutes.basePath)
  ELSE moduleRoutes.description

\* C1: after each module, tags holds one Tag Object per tag name (the explicit
\* name, else the name derived from the base path), every processed module's
\* name is there, and the Tag Object of a name carries the description of
\* the first module that produced the name.
C1_OneTagPerNameFirstWins ==
  /\ \A i, j \in 1..Len(tags) : tags[i].name = tags[j].name => i = j
  /\ \A k \in 1..Len(allModuleRoutes) :
       \E i \in 1..Len(tags) : tags[i].name = ExpectedTagName(allModuleRoutes[k])
  /\ \A i \in 1..Len(tags) :
       \E k \in 1..Len(allModuleRoutes) :
         /\ ExpectedTagName(allModuleRoutes[k]) = tags[i].name
         /\ \A j \in 1..(k - 1) : ExpectedTagName(allModuleRoutes[j]) # tags[i].name
         /\ tags[i].description = ExpectedTagDescription(allModuleRoutes[k])

\* C1 witness: two modules produced one name with different descriptions, and
\* the one Tag Object carries the first module's.
C1_Witness ==
  /\ Len(allModuleRoutes) = 2
  /\ allModuleRoutes[1].name = <<>>
  /\ allModuleRoutes[2].name # <<>>
  /\ ExpectedTagName(allModuleRoutes[1]) = ExpectedTagName(allModuleRoutes[2])
  /\ ExpectedTagDescription(allModuleRoutes[1]) # ExpectedTagDescription(allModuleRoutes[2])
  /\ Len(tags) = 1
  /\ tags[1].description = ExpectedTagDescription(allModuleRoutes[1])

\* the template of the route at a place of the log
TemplateAt(place) ==
  PathString(allModuleRoutes[place[1]].basePath,
             allModuleRoutes[place[1]].routes[place[2]].path)

MethodAt(place) == allModuleRoutes[place[1]].routes[place[2]].method

\* any two inserted routes with one template and two methods sit under one
\* path entry, and no path entry serves two templates
C2_Shared ==
  /\ \A p, q \in RoutePlaces :
       TemplateAt(p) = TemplateAt(q) /\ MethodAt(p) # MethodAt(q) =>
         /\ TemplateAt(p) \in DOMAIN paths
         /\ {MethodAt(p), MethodAt(q)} \subseteq DOMAIN pathItems[paths[TemplateAt(p)]]
  /\ \A t, u \in DOMAIN paths : paths[t] = paths[u] => t = u

\* a step keeps every template on its path entry and changes no route object
\* but the one of the route being processed
C2_Step ==
  /\ \A t \in DOMAIN paths : t \in DOMAIN paths' /\ paths'[t] = paths[t]
  /\ \A ref \in 1..Len(pathItems) :
       \A method \in DOMAIN pathItems[ref] :
         ~(RouteStarted' /\ ref = routePath' /\ method = RouteDef'.method) =>
           /\ method \in DOMAIN pathItems'[ref]
           /\ pathItems'[ref][method] = pathItems[ref][method]

\* C2: two routes whose base path + path give one template and whose methods
\* differ end under one path entry, each under its method; processing a route
\* leaves the objects of the other methods unchanged; a path entry, once
\* created, is reused and never recreated.
C2_OnePathEntryPerTemplate == []C2_Shared /\ [][C2_Step]_vars

\* C2 witness: both routes are finished, they come from different modules,
\* and the one path entry holds both methods.
C2_Witness ==
  /\ pc = "idle"
  /\ Len(allModuleRoutes) = 2
  /\ Len(allModuleRoutes[1].routes) = 1
  /\ Len(allModuleRoutes[2].routes) = 1
  /\ TemplateAt(<<1, 1>>) = TemplateAt(<<2, 1>>)
  /\ MethodAt(<<1, 1>>) # MethodAt(<<2, 1>>)
  /\ DOMAIN paths = {TemplateAt(<<1, 1>>)}
  /\ Len(pathItems) = 1
  /\ DOMAIN pathItems[1] = {MethodAt(<<1, 1>>), MethodAt(<<2, 1>>)}

RECURSIVE ScanTemplate(_, _, _)
\* the template read off the characters, left to right: a ":" that opens a
\* segment becomes "{", and the segment it opened is closed by "}"
ScanTemplate(s, i, open) ==
  LET close == IF open THEN <<"}">> ELSE <<>>
  IN IF i > Len(s) THEN close
     ELSE IF s[i] = "/" THEN close \o <<"/">> \o ScanTemplate(s, i + 1, FALSE)
     ELSE IF s[i] = ":" /\ (i = 1 \/ s[i - 1] = "/")
     THEN <<"{">> \o ScanTemplate(s, i + 1, TRUE)
     ELSE <<s[i]>> \o ScanTemplate(s, i + 1, open)

\* the positions of the ":" that open a segment, and the name each opens
Markers(s) == {i \in 1..Len(s) : s[i] = ":" /\ (i = 1 \/ s[i - 1] = "/")}

NameFrom(s, i) ==
  LET stops == {j \in (i + 1)..Len(s) : s[j] = "/"}
      end == IF stops = {} THEN Len(s) + 1
             ELSE CHOOSE j \in stops : \A k \in stops : j <= k
  IN SubSeq(s, i + 1, end - 1)

RECURSIVE NamesFrom(_, _)
NamesFrom(s, i) ==
  IF i > Len(s) THEN <<>>
  ELSE IF i \in Markers(s) THEN <<NameFrom(s, i)>> \o NamesFrom(s, i + 1)
  ELSE NamesFrom(s, i + 1)

\* C3: the template of a route is base path + path with every segment that
\* begins with ":" rewritten to "{name}" and every other segment unchanged,
\* and pathParams holds the names of those segments from left to right.
C3_TemplateAndNames ==
  RouteStarted =>
    LET s == CurModule.basePath \o RouteDef.path
    IN /\ DOMAIN paths = {ScanTemplate(s, 1, FALSE)}
       /\ pathParams = NamesFrom(s, 1)

\* C3 witness: base path "/:b" and path "/:a" give "/{b}/{a}" and the names
\* b, a.
C3_Witness ==
  /\ RouteStarted
  /\ CurModule.basePath = <<"/", ":", "b">>
  /\ RouteDef.path = <<"/", ":", "a">>
  /\ DOMAIN paths = {<<"/", "{", "b", "}", "/", "{", "a", "}">>}
  /\ pathParams = << <<"b">>, <<"a">> >>

(***************************************************************************)
(* Where the conversion of the current route stands.                       *)
(***************************************************************************)
AbortedInPathParams == pc = "aborted" /\ cbf.result # "TypeError"

AbortedInBody == pc = "aborted" /\ cbf.result = "TypeError"

PathStageOver == RouteStarted /\ pc # "addRequestPathParams"

ParametersDone ==
  /\ RouteStarted
  /\ \/ pc \in {"addRequestBodyParams", "containsBinaryField", "requestBody",
                "addResponseExample", "idle"}
     \/ AbortedInBody

BodyStageEntered ==
  /\ RouteStarted
  /\ \/ pc \in {"containsBinaryField", "requestBody", "addResponseExample", "idle"}
     \/ AbortedInBody

BodyStageOver == RouteStarted /\ (pc \in {"addResponseExample", "idle"} \/ AbortedInBody)

RouteFinished == RouteStarted /\ pc = "idle"

Parameters == swaggerReq.parameters

\* the suffix the documentation gives a description for an example value
ExampleSuffix(value) == <<" (Example: ", value, ")">>

ClaimedLocation ==
  [position \in {"path", "query", "queryStringParameters", "header", "pathParameters"} |->
     CASE position \in {"path", "pathParameters"} -> "path"
       [] position \in {"query", "queryStringParameters"} -> "query"
       [] OTHER -> "header"]

\* C4: a field with a non-empty examples list and no direct example becomes a
\* Parameter Object whose example is the first element of the list, which has
\* no examples key, and whose description is the field's description followed
\* by " (Example: <first element>)".
C4_FirstExampleProjected ==
  ParametersDone =>
    \A position \in DOMAIN ClaimedLocation :
      LET validator == RouteDef.validators[position]
      IN \A i \in 1..Len(validator.properties) :
           LET name == validator.properties[i].name
               field == validator.properties[i].schema
           IN (/\ validator.defined
               /\ field.hasExamples
               /\ Len(field.examples) > 0
               /\ field.example = Undefined
               /\ position = "path" => name \in Range(pathParams)) =>
                \E j \in 1..Len(Parameters) :
                  /\ Parameters[j].name = name
                  /\ Parameters[j].in = ClaimedLocation[position]
                  /\ Parameters[j].example = field.examples[1]
                  /\ ~Parameters[j].hasExamples
                  /\ Parameters[j].description =
                       (IF field.hasDescription THEN field.description ELSE <<>>)
                       \o ExampleSuffix(field.examples[1])

\* the binary rule as the documentation words it
HasBinaryProperty(schema) ==
  \E i \in 1..Len(schema.properties) :
    LET field == schema.properties[i].schema
    IN field.format = "binary" \/ (field.type = "array" /\ field.itemsFormat = "binary")

\* the name a $ref points at
NameOfRef(ref) == ref[Len(ref)]

ClaimedBinary(schema, store) ==
  \/ HasBinaryProperty(schema)
  \/ /\ schema.ref # <<>>
     /\ NameOfRef(schema.ref) \in DOMAIN store
     /\ HasBinaryProperty(store[NameOfRef(schema.ref)])

\* C5: without a body validator the route object has no requestBody; with
\* one, requestBody has the single content type multipart/form-data when the
\* converted schema has a binary property or its root $ref resolves to a
\* shared schema that has one, and application/json in every other case.
C5_ContentType ==
  BodyStageOver =>
    IF RouteDef.validators.body.defined
    THEN swaggerReq.requestBody.contentType =
           (IF ClaimedBinary(RouteDef.validators.body, sharedSchemas)
            THEN "multipart/form-data" ELSE "application/json")
    ELSE swaggerReq.requestBody = NoRequestBody

\* a bare root $ref: no properties, a reference
IsBareRef(schema) == schema.defined /\ schema.properties = <<>> /\ schema.ref # <<>>

\* body -> A -> B with A bare and not binary, B binary
TwoHops ==
  /\ RouteStarted
  /\ IsBareRef(RouteDef.validators.body)
  /\ LET a == NameOfRef(RouteDef.validators.body.ref)
     IN /\ a \in DOMAIN sharedSchemas
        /\ IsBareRef(sharedSchemas[a])
        /\ LET b == NameOfRef(sharedSchemas[a].ref)
           IN b \in DOMAIN sharedSchemas /\ HasBinaryProperty(sharedSchemas[b])

RECURSIVE Hop(_)
Hop(k) ==
  LET from == IF k = 1 THEN RouteDef.validators.body ELSE Hop(k - 1)
  IN IF from.defined /\ from.ref # <<>> /\ NameOfRef(from.ref) \in DOMAIN sharedSchemas
     THEN sharedSchemas[NameOfRef(from.ref)]
     ELSE NoSchema

\* the chain of root $refs from a bare body schema never ends (so it runs
\* into a cycle of the store) and no schema on it has a binary property
CycleOfRefs ==
  /\ RouteStarted
  /\ IsBareRef(RouteDef.validators.body)
  /\ \A k \in 1..(Cardinality(DOMAIN sharedSchemas) + 1) :
       Hop(k).defined /\ ~HasBinaryProperty(Hop(k))

\* C10: on a reference cycle without a binary property containsBinaryField
\* recurses for ever: the call never returns and never stops.
C10_CycleNeverReturns ==
  CycleOfRefs /\ BodyStageEntered =>
    pc = "containsBinaryField" /\ cbf.result = "running" /\ err = "none"

\* the examples of a code that declare a schema
WithSchema(examples, code) ==
  {i \in 1..Len(examples) : examples[i].code = code /\ examples[i].schema # Undefined}

Latest(indices) == CHOOSE i \in indices : \A j \in indices : j <= i

\* C7: after addResponseExample the responses of a route are the template's
\* (the 500 entry), overridden for each code by the Response Object of the last
\* example of that code that has a schema; an example without a schema adds
\* nothing and changes nothing.
C7_LastExampleWithSchemaWins ==
  RouteFinished =>
    LET examples == RouteDef.responseExamples
        responses == swaggerReq.responses
    IN \A code \in DOMAIN responses \cup {examples[i].code : i \in 1..Len(examples)} :
         IF WithSchema(examples, code) = {}
         THEN /\ code \in DOMAIN responses <=> code \in DOMAIN routeEntity.responses
              /\ code \in DOMAIN responses => responses[code] = routeEntity.responses[code]
         ELSE LET last == examples[Latest(WithSchema(examples, code))]
              IN /\ code \in DOMAIN responses
                 /\ responses[code].schema = last.schema
                 /\ responses[code].description =
                      (IF last.description \in {Undefined, ""}
                       THEN "Normal Response" ELSE last.description)
                 /\ responses[code].mediaType =
                      (IF last.mediaType \in {Undefined, ""}
                       THEN "application/json" ELSE last.mediaType)

\* C7 witness: two examples of code 500 with different schemas; the second
\* has replaced the first, which had replaced the template's entry.
C7_Witness ==
  /\ RouteFinished
  /\ Len(RouteDef.responseExamples) = 2
  /\ RouteDef.responseExamples[1].code = "500"
  /\ RouteDef.responseExamples[2].code = "500"
  /\ RouteDef.responseExamples[1].schema = "S1"
  /\ RouteDef.responseExamples[2].schema = "S2"
  /\ swaggerReq.responses["500"].schema = "S2"
  /\ swaggerReq.responses["500"].description = "Normal Response"

\* the untyped parameter the documentation gives a name without a validator
UntypedParameter(name) ==
  [name |-> name, in |-> "path", required |-> TRUE,
   hasDescription |-> TRUE, description |-> <<>>, example |-> Undefined,
   hasExamples |-> FALSE, examples |-> <<>>,
   schema |-> [type |-> "string", format |-> Undefined, itemsFormat |-> Undefined,
               hasExamples |-> FALSE, examples |-> <<>>]]

Unvalidated ==
  {name \in Range(pathParams) :
     \A i \in 1..Len(RouteDef.validators.path.properties) :
       RouteDef.validators.path.properties[i].name # name}

\* C8: for every path-parameter name without a path validator field (no path
\* validator, or one that declares no property of that name) the conversion
\* goes on without error and parameters holds the untyped required string
\* parameter of that name.
C8_UntypedFallback ==
  PathStageOver /\ Unvalidated # {} =>
    /\ ~AbortedInPathParams
    /\ \A name \in Unvalidated :
         \E j \in 1..Len(Parameters) : Parameters[j] = UntypedParameter(name)

\* the <<name, in>> pairs one projection pass adds
Segment(names, location) == [i \in 1..Len(names) |-> <<names[i], location>>]

FieldNames(validator) ==
  [i \in 1..Len(validator.properties) |-> validator.properties[i].name]

\* the passes finished when the conversion stands at pc, in their order
PassesBefore ==
  CASE pc = "addRequestPathParams" -> 0
    [] pc = "query" -> 1
    [] pc = "queryStringParameters" -> 2
    [] pc = "header" -> 3
    [] pc = "pathParameters" -> 4
    [] OTHER -> 5

PassSegment(k) ==
  CASE k = 1 -> Segment(pathParams, "path")
    [] k = 2 -> Segment(FieldNames(RouteDef.validators.query), "query")
    [] k = 3 -> Segment(FieldNames(RouteDef.validators.queryStringParameters), "query")
    [] k = 4 -> Segment(FieldNames(RouteDef.validators.header), "header")
    [] OTHER -> Segment(FieldNames(RouteDef.validators.pathParameters), "path")

RECURSIVE SegmentsUpTo(_)
SegmentsUpTo(k) == IF k = 0 THEN <<>> ELSE SegmentsUpTo(k - 1) \o PassSegment(k)

LocationRank(location) ==
  CASE location = "path" -> 1 [] location = "query" -> 2 [] OTHER -> 3

\* C9 as stated: in the finished list every path entry precedes every query
\* entry and every query entry precedes every header entry.
C9_PathQueryHeader ==
  ParametersDone =>
    \A i, j \in 1..Len(Parameters) :
      i < j => LocationRank(Parameters[i].in) <= LocationRank(Parameters[j].in)

\* C9 amended: the list is built by five passes in a fixed order, and nothing
\* else is appended: the names of the path template (in = path), the fields of
\* validator key query, those of queryStringParameters (both in = query),
\* those of header, and last those of validator key pathParameters, which
\* are path entries that follow the header entries.
C9_FivePasses ==
  RouteStarted /\ ~AbortedInPathParams =>
    [i \in 1..Len(Parameters) |-> <<Parameters[i].name, Parameters[i].in>>]
      = SegmentsUpTo(PassesBefore)

\* C9 witness: a finished list with a path entry of the template, a query
\* entry, a header entry and a path entry of pathParameters, in that order.
C9_Witness ==
  /\ RouteFinished
  /\ [i \in 1..Len(Parameters) |-> Parameters[i].in] = <<"path", "query", "header", "path">>
  /\ Parameters[1].name = <<"i">>
  /\ Parameters[4].name = <<"p">>

====
